---- MODULE Spec2Model ----
(***************************************************************************)
(* Model of challenge.mjs: an in-memory event broker with keyed topics,    *)
(* consumer groups and long-poll delivery, running on the JavaScript event *)
(* loop (one thread; macrotasks = external calls, timers, the sweeper;     *)
(* microtasks = continuations of resolved promises, run FIFO before the    *)
(* next timer or sweeper callback).                                         *)
(*                                                                         *)
(* Time is Date.now() in milliseconds, starting at 0 when the module is    *)
(* loaded.  Timers and the sweeper fire exactly at their due time (no      *)
(* scheduling slack).  The random component of an event id is modelled as  *)
(* a fresh value per push (Math.random() collisions are not modelled), so  *)
(* it also serves as the push's sequence number.                           *)
(***************************************************************************)
EXTENDS Integers, Sequences, FiniteSets, TLC

VARIABLES
    now,              \* Date.now()
    events,           \* Map key -> [{id, data, timestamp}]
    groupConsumption, \* Map "key:groupId" -> Set(eventId)
    waiters,          \* Map key -> [resolve]; a resolve is named by its call
    calls,            \* every valid blockingGet invocation, in call order
    timers,           \* calls whose setTimeout(resolve, ...) has not fired yet
    microtasks,       \* calls whose continuation after `await` is queued
    nextSweep,        \* due time of the next setInterval callback
    nextRnd,          \* next fresh random component of an event id
    outcome,          \* what the last operation gave back to its caller
    pushed            \* history: the data argument of each valid push, in order

vars == <<now, events, groupConsumption, waiters, calls, timers, microtasks,
          nextSweep, nextRnd, outcome, pushed>>

stores == <<events, groupConsumption, waiters>>

----------------------------------------------------------------------------
(* Program constants *)

EVENT_EXPIRY_MS == 2 * 60 * 1000
BLOCKING_TIMEOUT_MS == 30 * 1000
SWEEP_INTERVAL_MS == 10 * 1000

(* Bounds of the model *)

MaxPush == 2            \* valid pushes in a behaviour
MaxCalls == 2           \* valid blockingGet calls in a behaviour
MaxTicks == 4           \* clock advances of Spec, SWEEP_INTERVAL_MS each
RetentionPush == 2      \* the same three for SpecRetention, whose
RetentionCalls == 1     \* clock advances by a quarter of a sweep interval
RetentionTicks == 52
PayloadPush == 2        \* pushes and calls of SpecPayload, which
PayloadCalls == 1       \* draws the data argument from PushData

Keys == {"", "a", "a:b"}          \* "" stands for every falsy key
GroupIds == {"", "c", "b:c"}      \* "" stands for every falsy groupId
Falsy == {"0", "", "false", "null", "undefined"}   \* JS values, by name
PushData == {"{id:1}", "0"}

----------------------------------------------------------------------------
(* Map and array helpers *)

MapSet(m, k, v) == [x \in DOMAIN m \cup {k} |-> IF x = k THEN v ELSE m[x]]
MapDelete(m, k) == [x \in DOMAIN m \ {k} |-> m[x]]
EmptyMap == [x \in {} |-> {}]
Range(s) == {s[i] : i \in DOMAIN s}
Ids(evts) == {evts[i].id : i \in DOMAIN evts}
Min(S) == CHOOSE x \in S : \A y \in S : x <= y

----------------------------------------------------------------------------
(* push: the new event *)

NewEventWithoutData(key, data, t, rnd) ==
    [id |-> <<key, t, rnd>>, data |-> "{}", timestamp |-> t]

NewEvent(key, data, t, rnd) ==
    [id |-> <<key, t, rnd>>,
     data |-> IF data \in Falsy THEN "{}" ELSE data,
     timestamp |-> t]

AppendEventPrepend(evs, key, e) ==
    MapSet(evs, key, <<e>> \o (IF key \in DOMAIN evs THEN evs[key] ELSE <<>>))

AppendEvent(evs, key, e) ==
    MapSet(evs, key, Append(IF key \in DOMAIN evs THEN evs[key] ELSE <<>>, e))

(* blockingGet: groupKey, getUnconsumed, markConsumed *)

GroupKeyWithoutGroup(key, groupId) == key \o ":"

GroupKey(key, groupId) == key \o ":" \o groupId

getUnconsumedFirstOnly(evs, gc, key, groupKey) ==
    LET allEvents == IF key \in DOMAIN evs THEN evs[key] ELSE <<>>
        consumed == IF groupKey \in DOMAIN gc THEN gc[groupKey] ELSE {}
        fresh == SelectSeq(allEvents, LAMBDA e : e.id \notin consumed)
    IN IF fresh = <<>> THEN <<>> ELSE <<fresh[1]>>

getUnconsumedNegated(evs, gc, key, groupKey) ==
    LET allEvents == IF key \in DOMAIN evs THEN evs[key] ELSE <<>>
        consumed == IF groupKey \in DOMAIN gc THEN gc[groupKey] ELSE {}
    IN SelectSeq(allEvents, LAMBDA e : e.id \in consumed)

getUnconsumed(evs, gc, key, groupKey) ==
    LET allEvents == IF key \in DOMAIN evs THEN evs[key] ELSE <<>>
        consumed == IF groupKey \in DOMAIN gc THEN gc[groupKey] ELSE {}
    IN SelectSeq(allEvents, LAMBDA e : e.id \notin consumed)

markConsumedNothing(gc, groupKey, eventsArr) ==
    MapSet(gc, groupKey, IF groupKey \in DOMAIN gc THEN gc[groupKey] ELSE {})

markConsumed(gc, groupKey, eventsArr) ==
    MapSet(gc, groupKey,
           (IF groupKey \in DOMAIN gc THEN gc[groupKey] ELSE {}) \cup Ids(eventsArr))

(* the sweeper's filter *)

ValidInclusive(evts, t) == SelectSeq(evts, LAMBDA e : t - e.timestamp <= EVENT_EXPIRY_MS)

Valid(evts, t) == SelectSeq(evts, LAMBDA e : t - e.timestamp < EVENT_EXPIRY_MS)

Swept(evs, t) ==
    LET keep == {k \in DOMAIN evs : Len(Valid(evs[k], t)) > 0}
    IN [k \in keep |-> Valid(evs[k], t)]

----------------------------------------------------------------------------
Init ==
    /\ now = 0
    /\ events = EmptyMap
    /\ groupConsumption = EmptyMap
    /\ waiters = EmptyMap
    /\ calls = <<>>
    /\ timers = {}
    /\ microtasks = <<>>
    /\ nextSweep = SWEEP_INTERVAL_MS
    /\ nextRnd = 1
    /\ outcome = "none"
    /\ pushed = <<>>

(* resolve() of the promise a call awaits: the first resolution queues the  *)
(* continuation, any later one does nothing.                                *)
Pending(c) == calls[c].pc = "wait"

Resolved(cs, woken, by) ==
    [c \in DOMAIN cs |->
        IF c \in woken THEN [cs[c] EXCEPT !.pc = "ready", !.wokenBy = by]
        ELSE cs[c]]

(* push(key, data), lines 31-48 *)
PushMissingKeyAfterAppend(key, data) ==
    /\ key = ""
    /\ events' = AppendEvent(events, key, NewEvent(key, data, now, nextRnd))
    /\ outcome' = "rejected: Missing key"
    /\ UNCHANGED <<now, groupConsumption, waiters, calls, timers,
                   microtasks, nextSweep, nextRnd, pushed>>

PushMissingKey(key, data) ==
    /\ key = ""
    /\ outcome' = "rejected: Missing key"
    /\ UNCHANGED <<now, events, groupConsumption, waiters, calls, timers,
                   microtasks, nextSweep, nextRnd, pushed>>

NotifyNobody(key) == <<>>

NotifyResolvedToo(key) == IF key \in DOMAIN waiters THEN waiters[key] ELSE <<>>

NotifyFirstOnly(key) ==
    IF key \in DOMAIN waiters
    THEN SubSeq(SelectSeq(waiters[key], Pending), 1, 1) ELSE <<>>

Notified(key) ==
    IF key \in DOMAIN waiters THEN SelectSeq(waiters[key], Pending) ELSE <<>>

Push(key, data, maxPush) ==
    /\ key # ""
    /\ nextRnd <= maxPush
    /\ LET newEvent == NewEvent(key, data, now, nextRnd)
           woken == Notified(key)
       IN /\ events' = AppendEvent(events, key, newEvent)
          /\ calls' = Resolved(calls, Range(woken), nextRnd)
          /\ microtasks' = microtasks \o woken
          /\ waiters' = MapDelete(waiters, key)
    /\ nextRnd' = nextRnd + 1
    /\ pushed' = Append(pushed, data)
    /\ outcome' = "none"
    /\ UNCHANGED <<now, groupConsumption, timers, nextSweep>>

(* blockingGet(key, groupId), lines 57-80: up to the await *)
BlockingGetMissingAfterRegister(key, groupId) ==
    /\ key = "" \/ groupId = ""
    /\ waiters' = MapSet(waiters, key, IF key \in DOMAIN waiters THEN waiters[key] ELSE <<>>)
    /\ outcome' = "returned: []"
    /\ UNCHANGED <<now, events, groupConsumption, calls, timers,
                   microtasks, nextSweep, nextRnd, pushed>>

BlockingGetMissing(key, groupId) ==
    /\ key = "" \/ groupId = ""
    /\ outcome' = "returned: []"
    /\ UNCHANGED <<now, events, groupConsumption, waiters, calls, timers,
                   microtasks, nextSweep, nextRnd, pushed>>

NewCall(key, groupId, pc, result) ==
    [key |-> key, groupId |-> groupId, pc |-> pc, calledAt |-> now,
     wokenBy |-> 0, result |-> result]

BlockingGet(key, groupId, maxCalls, horizon) ==
    /\ key # "" /\ groupId # ""
    /\ Len(calls) < maxCalls
    /\ LET groupKey == GroupKey(key, groupId)
           unconsumed == getUnconsumed(events, groupConsumption, key, groupKey)
           c == Len(calls) + 1
       IN IF Len(unconsumed) > 0
          THEN /\ groupConsumption' = markConsumed(groupConsumption, groupKey, unconsumed)
               /\ calls' = Append(calls, NewCall(key, groupId, "done", unconsumed))
               /\ UNCHANGED <<waiters, timers>>
          ELSE /\ now + BLOCKING_TIMEOUT_MS <= horizon
               /\ waiters' = MapSet(waiters, key,
                      Append(IF key \in DOMAIN waiters THEN waiters[key] ELSE <<>>, c))
               /\ timers' = timers \cup {c}
               /\ calls' = Append(calls, NewCall(key, groupId, "wait", <<>>))
               /\ UNCHANGED groupConsumption
    /\ outcome' = "none"
    /\ UNCHANGED <<now, events, microtasks, nextSweep, nextRnd, pushed>>

(* blockingGet, lines 82-88: the continuation after the await *)
ConsumedAfterAlways(gc, groupKey, unconsumed) == markConsumed(gc, groupKey, unconsumed)

ConsumedAfter(gc, groupKey, unconsumed) ==
    IF Len(unconsumed) > 0 THEN markConsumed(gc, groupKey, unconsumed) ELSE gc

Resume ==
    /\ microtasks # <<>>
    /\ LET c == Head(microtasks)
           key == calls[c].key
           groupKey == GroupKey(key, calls[c].groupId)
           unconsumed == getUnconsumed(events, groupConsumption, key, groupKey)
       IN /\ calls' = [calls EXCEPT ![c].pc = "done", ![c].result = unconsumed]
          /\ groupConsumption' = ConsumedAfter(groupConsumption, groupKey, unconsumed)
    /\ microtasks' = Tail(microtasks)
    /\ outcome' = "none"
    /\ UNCHANGED <<now, events, waiters, timers, nextSweep, nextRnd, pushed>>

(* setTimeout(resolve, BLOCKING_TIMEOUT_MS), line 79: the timer fires *)
DeadlineDoubled(c) == calls[c].calledAt + 2 * BLOCKING_TIMEOUT_MS

Deadline(c) == calls[c].calledAt + BLOCKING_TIMEOUT_MS

Timeout(c) ==
    /\ microtasks = <<>>
    /\ c \in timers
    /\ now >= Deadline(c)
    /\ timers' = timers \ {c}
    /\ IF Pending(c)
       THEN /\ calls' = Resolved(calls, {c}, -1)
            /\ microtasks' = Append(microtasks, c)
       ELSE UNCHANGED <<calls, microtasks>>
    /\ outcome' = "none"
    /\ UNCHANGED <<now, events, groupConsumption, waiters, nextSweep, nextRnd, pushed>>

(* the setInterval callback, lines 14-24 *)
SweepAlsoPrunesConsumed ==
    /\ microtasks = <<>>
    /\ now >= nextSweep
    /\ events' = Swept(events, now)
    /\ groupConsumption' =
          [gk \in DOMAIN groupConsumption |->
              {id \in groupConsumption[gk] : now - id[2] < EVENT_EXPIRY_MS}]
    /\ nextSweep' = nextSweep + SWEEP_INTERVAL_MS
    /\ outcome' = "none"
    /\ UNCHANGED <<now, waiters, calls, timers, microtasks, nextRnd, pushed>>

Sweep ==
    /\ microtasks = <<>>
    /\ now >= nextSweep
    /\ events' = Swept(events, now)
    /\ nextSweep' = nextSweep + SWEEP_INTERVAL_MS
    /\ outcome' = "none"
    /\ UNCHANGED <<now, groupConsumption, waiters, calls, timers, microtasks, nextRnd, pushed>>

(* the clock advances, never past a due timer or sweep *)
Due == {nextSweep} \cup {Deadline(c) : c \in timers}

Tick(step, horizon) ==
    /\ microtasks = <<>>
    /\ \A d \in Due : now < d
    /\ now' = Min(Due \cup {now + step})
    /\ now' <= horizon
    /\ outcome' = "none"
    /\ UNCHANGED <<events, groupConsumption, waiters, calls, timers, microtasks,
                   nextSweep, nextRnd, pushed>>

NextB(maxPush, maxCalls, payloads, step, horizon) ==
    \/ \E key \in Keys, data \in payloads : PushMissingKey(key, data)
    \/ \E key \in Keys, data \in payloads : Push(key, data, maxPush)
    \/ \E key \in Keys, groupId \in GroupIds : BlockingGetMissing(key, groupId)
    \/ \E key \in Keys, groupId \in GroupIds : BlockingGet(key, groupId, maxCalls, horizon)
    \/ Resume
    \/ \E c \in DOMAIN calls : Timeout(c)
    \/ Sweep
    \/ Tick(step, horizon)

Next == NextB(MaxPush, MaxCalls, {"{id:1}"}, SWEEP_INTERVAL_MS,
              MaxTicks * SWEEP_INTERVAL_MS)

Spec == Init /\ [][Next]_vars

(* The same program over a horizon longer than EVENT_EXPIRY_MS, on a finer  *)
(* clock, so that pushes fall between two sweeps; one topic, one group,    *)
(* well-formed arguments only.                                              *)
RetentionStep == SWEEP_INTERVAL_MS \div 4
RetentionHorizon == RetentionTicks * RetentionStep

NextRetention ==
    \/ Push("a", "{id:1}", RetentionPush)
    \/ BlockingGet("a", "c", RetentionCalls, RetentionHorizon)
    \/ Resume
    \/ \E c \in DOMAIN calls : Timeout(c)
    \/ Sweep
    \/ Tick(RetentionStep, RetentionHorizon)

SpecRetention == Init /\ [][NextRetention]_vars

(* The same program with truthy and falsy data arguments of push.          *)
NextPayload == NextB(PayloadPush, PayloadCalls, PushData, SWEEP_INTERVAL_MS,
                     MaxTicks * SWEEP_INTERVAL_MS)

SpecPayload == Init /\ [][NextPayload]_vars

(* The same program as Spec with the event loop's scheduling: a queued     *)
(* continuation runs, a due timer or sweep fires, and the clock advances.   *)
Fairness ==
    /\ WF_vars(Resume)
    /\ WF_vars(\E c \in DOMAIN calls : Timeout(c))
    /\ WF_vars(Sweep)
    /\ WF_vars(Tick(SWEEP_INTERVAL_MS, MaxTicks * SWEEP_INTERVAL_MS))

SpecLive == Init /\ [][Next]_vars /\ Fairness

----------------------------------------------------------------------------
(* Vocabulary of the properties *)

Seqs(evts) == {evts[i].id[3] : i \in DOMAIN evts}   \* the pushes a result holds
SameGroup(c1, c2) ==
    calls[c1].key = calls[c2].key /\ calls[c1].groupId = calls[c2].groupId
Done(c) == calls[c].pc = "done"
Returned(c, n) == Done(c) /\ n \in Seqs(calls[c].result)
Stored(key) == IF key \in DOMAIN events THEN events[key] ELSE <<>>
ConsumedBy(key, groupId) ==
    IF GroupKey(key, groupId) \in DOMAIN groupConsumption
    THEN groupConsumption[GroupKey(key, groupId)] ELSE {}

(* C1: no event id is returned to the same (key, groupId) more than once:  *)
(* not twice within one result, and not by two calls of the same group,    *)
(* whether they ran one after the other or were pending together.          *)
C1_NoDuplicateDelivery ==
    \A c1, c2 \in DOMAIN calls :
        /\ \A i, j \in DOMAIN calls[c1].result :
              i # j => calls[c1].result[i].id # calls[c1].result[j].id
        /\ (c1 # c2 /\ SameGroup(c1, c2))
              => Ids(calls[c1].result) \cap Ids(calls[c2].result) = {}

(* Two calls of one group were pending together, one push woke both, both  *)
(* have returned and one of them got the event.                            *)
C1_Witness ==
    \E c1, c2 \in DOMAIN calls :
        /\ c1 # c2 /\ SameGroup(c1, c2)
        /\ calls[c1].wokenBy > 0 /\ calls[c1].wokenBy = calls[c2].wokenBy
        /\ Returned(c1, calls[c1].wokenBy) /\ Done(c2)

(* C2 as stated: every call woken by a push returns the pushed event.      *)
C2_EveryWokenCallReturnsEvent ==
    \A c \in DOMAIN calls :
        (Done(c) /\ calls[c].wokenBy > 0) => Returned(c, calls[c].wokenBy)

(* C2 amended: a call that a push woke continues at the time of that push  *)
(* (not at its timeout), and it returns the pushed event unless another    *)
(* call of the same (key, groupId) has returned it.                        *)
C2_WokenCallOrGroupGetsEvent ==
    \A c \in DOMAIN calls :
        LET n == calls[c].wokenBy IN
        /\ (calls[c].pc = "ready" /\ n > 0)
              => \E i \in DOMAIN Stored(calls[c].key) :
                    /\ Stored(calls[c].key)[i].id[3] = n
                    /\ Stored(calls[c].key)[i].timestamp = now
        /\ (Done(c) /\ n > 0)
              => \/ Returned(c, n)
                 \/ \E c2 \in DOMAIN calls : c2 # c /\ SameGroup(c, c2) /\ Returned(c2, n)

(* A call waited, a later push woke it before its timeout, it returned the *)
(* pushed event.                                                           *)
C2_Witness ==
    \E c \in DOMAIN calls :
        /\ calls[c].wokenBy > 0 /\ Returned(c, calls[c].wokenBy)
        /\ \E i \in DOMAIN calls[c].result :
              /\ calls[c].result[i].id[3] = calls[c].wokenBy
              /\ calls[c].result[i].timestamp > calls[c].calledAt
              /\ calls[c].result[i].timestamp < calls[c].calledAt + BLOCKING_TIMEOUT_MS

(* C3: when one push wakes pending calls of two different groups, each of  *)
(* the two groups receives the pushed event exactly once; a call that is   *)
(* its group's only call on that key returns it itself.                    *)
C3_BroadcastToGroups ==
    \A c1, c2 \in DOMAIN calls :
        (/\ calls[c1].wokenBy > 0 /\ calls[c1].wokenBy = calls[c2].wokenBy
         /\ calls[c1].groupId # calls[c2].groupId
         /\ Done(c1) /\ Done(c2))
        => /\ Cardinality({c \in DOMAIN calls :
                                SameGroup(c, c1) /\ Returned(c, calls[c1].wokenBy)}) = 1
           /\ (\A c \in DOMAIN calls : SameGroup(c, c1) => c = c1)
                => Returned(c1, calls[c1].wokenBy)

C3_Witness ==
    \E c1, c2 \in DOMAIN calls :
        /\ calls[c1].wokenBy > 0 /\ calls[c1].wokenBy = calls[c2].wokenBy
        /\ calls[c1].groupId # calls[c2].groupId
        /\ Returned(c1, calls[c1].wokenBy) /\ Returned(c2, calls[c1].wokenBy)


(* C4: no result of a blockingGet whose first check happens later than     *)
(* T + EVENT_EXPIRY_MS holds an event pushed at time T.                    *)
C4_ExpiredNeverReturned ==
    \A c \in DOMAIN calls : \A i \in DOMAIN calls[c].result :
        calls[c].calledAt <= calls[c].result[i].timestamp + EVENT_EXPIRY_MS

(* C5: every call returns, and a call that has not returned yet is at most *)
(* BLOCKING_TIMEOUT_MS past its registration, push or no push.             *)
C5_BoundedWait ==
    /\ [](\A c \in DOMAIN calls :
            ~Done(c) => now <= calls[c].calledAt + BLOCKING_TIMEOUT_MS)
    /\ \A c \in 1..MaxCalls :
            [](c \in DOMAIN calls => <>(c \in DOMAIN calls /\ Done(c)))

(* A call returned [] by timeout although nothing was ever pushed.         *)
C5_Witness ==
    \E c \in DOMAIN calls :
        /\ Done(c) /\ calls[c].wokenBy = -1 /\ calls[c].result = <<>>
        /\ nextRnd = 1
        /\ now = calls[c].calledAt + BLOCKING_TIMEOUT_MS

(* C6: the registry holds no call that has returned, and every key in it   *)
(* has at least one waiter that is still pending.                          *)
C6_WaiterCleanup ==
    \A k \in DOMAIN waiters :
        /\ \A i \in DOMAIN waiters[k] : ~Done(waiters[k][i])
        /\ \E i \in DOMAIN waiters[k] : Pending(waiters[k][i])

(* C7 as stated: a call woken by push A returns no event of a later push.  *)
C7_WokenCallNeverSeesLaterPush ==
    \A c \in DOMAIN calls :
        (Done(c) /\ calls[c].wokenBy > 0)
            => \A n \in Seqs(calls[c].result) : n <= calls[c].wokenBy

(* C7 amended: a result lists events in push order, so B's event never     *)
(* precedes A's; a call returns only events pushed before its continuation *)
(* ran, and its result does not change afterwards.                         *)
C7_PushOrderKept ==
    /\ [](\A c \in DOMAIN calls : \A i, j \in DOMAIN calls[c].result :
            i < j => calls[c].result[i].id[3] < calls[c].result[j].id[3])
    /\ [][\A c \in DOMAIN calls' :
            ((c \notin DOMAIN calls \/ ~Done(c)) /\ calls'[c].pc = "done")
                => \A n \in Seqs(calls'[c].result) : n < nextRnd]_vars
    /\ [][\A c \in DOMAIN calls : Done(c) => calls'[c] = calls[c]]_vars

(* A call woken by one push returned that push's event and a later one's.  *)
C7_Witness ==
    \E c \in DOMAIN calls :
        /\ calls[c].wokenBy > 0 /\ Returned(c, calls[c].wokenBy)
        /\ \E n \in Seqs(calls[c].result) : n > calls[c].wokenBy

(* C8: while a call is suspended, neither notified nor timed out, every    *)
(* stored event of its key is in its group's consumed set.                 *)
C8_NoLostWakeup ==
    \A c \in DOMAIN calls :
        Pending(c) => \A i \in DOMAIN Stored(calls[c].key) :
            Stored(calls[c].key)[i].id \in ConsumedBy(calls[c].key, calls[c].groupId)

(* A call is suspended on a key that holds events (all consumed by it).    *)
C8_Witness ==
    \E c \in DOMAIN calls : Pending(c) /\ Stored(calls[c].key) # <<>>

(* C9: a push wakes every pending waiter of its key exactly once and       *)
(* empties the registry for that key; it leaves every other call and every *)
(* other key's registry as they were; a call is woken only by a push to    *)
(* its key made while it is registered, and starts out not woken.          *)
PushStep == nextRnd' = nextRnd + 1
PushedKey ==
    CHOOSE k \in DOMAIN events' :
        \E i \in DOMAIN events'[k] : events'[k][i].id[3] = nextRnd
Count(s, x) == Cardinality({i \in DOMAIN s : s[i] = x})

C9_OneShotNotify ==
    [][/\ PushStep =>
            /\ PushedKey \notin DOMAIN waiters'
            /\ \A k \in DOMAIN waiters \ {PushedKey} :
                  k \in DOMAIN waiters' /\ waiters'[k] = waiters[k]
            /\ \A c \in DOMAIN calls :
                  IF Pending(c) /\ calls[c].key = PushedKey
                  THEN /\ calls'[c].pc = "ready" /\ calls'[c].wokenBy = nextRnd
                       /\ Count(microtasks', c) = 1
                  ELSE /\ calls'[c] = calls[c]
                       /\ Count(microtasks', c) = Count(microtasks, c)
       /\ \A c \in DOMAIN calls :
            (Pending(c) /\ calls'[c].wokenBy > 0)
                => /\ PushStep /\ calls[c].key = PushedKey
                   /\ c \in Range(waiters[calls[c].key])
       /\ \A c \in DOMAIN calls' \ DOMAIN calls :
            /\ calls'[c].wokenBy = 0
            /\ calls'[c].pc = "wait" => c \in Range(waiters'[calls'[c].key])
      ]_vars

(* One push has woken two calls that were registered on its key.           *)
C9_Witness ==
    \E c1, c2 \in DOMAIN calls :
        /\ c1 # c2 /\ calls[c1].pc = "ready" /\ calls[c2].pc = "ready"
        /\ calls[c1].wokenBy > 0 /\ calls[c1].wokenBy = calls[c2].wokenBy
        /\ microtasks = <<c1, c2>>

(* C10: a push with a missing key is rejected and changes none of the      *)
(* three stores, wakes no waiter and queues no continuation.               *)
C10_MissingKeyRejected ==
    [][outcome' = "rejected: Missing key"
          => UNCHANGED <<stores, calls, microtasks>>]_vars

(* A push was rejected while events were stored and a call was waiting.    *)
C10_Witness ==
    /\ outcome = "rejected: Missing key"
    /\ DOMAIN events # {}
    /\ \E c \in DOMAIN calls : Pending(c)

(* C11: a blockingGet with a missing key or groupId returns [] at once,    *)
(* registers no waiter and no timer, marks nothing consumed and changes    *)
(* none of the three stores.                                               *)
C11_MissingArgsReturnEmpty ==
    [][outcome' = "returned: []"
          => /\ events' = events /\ groupConsumption' = groupConsumption
             /\ waiters' = waiters /\ timers' = timers
             /\ calls' = calls /\ microtasks' = microtasks]_vars

(* A malformed blockingGet returned [] while unconsumed events were stored. *)
C11_Witness ==
    /\ outcome = "returned: []"
    /\ \E k \in DOMAIN events : \E g \in GroupIds \ {""} :
          \E i \in DOMAIN events[k] : events[k][i].id \notin ConsumedBy(k, g)

(* C12: a group's call returns exactly the stored events of its key that   *)
(* no call of that same (key, groupId) has returned before, whatever other *)
(* groups have consumed; and a stored event is in a group's consumed set   *)
(* exactly when a call of that group has returned it.                      *)
ReturnedTo(key, groupId) ==
    UNION {Ids(calls[c].result) :
             c \in {d \in DOMAIN calls : calls[d].key = key /\ calls[d].groupId = groupId}}
Returning(c) ==
    /\ c \in DOMAIN calls' /\ calls'[c].pc = "done"
    /\ c \in DOMAIN calls => ~Done(c)

C12_GroupIndependence ==
    /\ [](\A k \in DOMAIN events : \A g \in GroupIds \ {""} :
            \A i \in DOMAIN events[k] :
                events[k][i].id \in ConsumedBy(k, g) <=> events[k][i].id \in ReturnedTo(k, g))
    /\ [][\A c \in DOMAIN calls' :
            Returning(c) =>
                calls'[c].result =
                    SelectSeq(Stored(calls'[c].key),
                              LAMBDA e : e.id \notin ReturnedTo(calls'[c].key, calls'[c].groupId))]_vars

(* An event already returned to one group was returned, at its first check, *)
(* to a later call of another group.                                       *)
C12_Witness ==
    \E c1, c2 \in DOMAIN calls :
        /\ c1 < c2 /\ calls[c1].key = calls[c2].key
        /\ calls[c1].groupId # calls[c2].groupId
        /\ calls[c1].wokenBy = 0 /\ calls[c2].wokenBy = 0
        /\ Done(c1) /\ Done(c2)
        /\ calls[c1].result # <<>> /\ calls[c1].result = calls[c2].result

(* C13: no step removes a consumption record or an id from one, not even  *)
(* a sweep that prunes the event the id belongs to.                        *)
C13_ConsumedOnlyGrows ==
    [][\A gk \in DOMAIN groupConsumption :
            /\ gk \in DOMAIN groupConsumption'
            /\ groupConsumption[gk] \subseteq groupConsumption'[gk]]_vars

(* The store has been swept empty and the id of a pruned event is still    *)
(* recorded as consumed.                                                   *)
C13_Witness ==
    /\ DOMAIN events = {}
    /\ \E gk \in DOMAIN groupConsumption : groupConsumption[gk] # {}

(* C14: a sweep at time now keeps, per key and in their order, exactly the *)
(* events with now - timestamp < EVENT_EXPIRY_MS and drops a key left with *)
(* none; no stored sequence is ever empty; a step that is not a sweep only *)
(* appends to the store.                                                   *)
SweepStep == nextSweep' # nextSweep
Younger(evts, t) == SelectSeq(evts, LAMBDA e : t - e.timestamp < EVENT_EXPIRY_MS)
IsPrefix(s, t) == Len(s) <= Len(t) /\ SubSeq(t, 1, Len(s)) = s

C14_RetentionSweep ==
    /\ [](\A k \in DOMAIN events : events[k] # <<>>)
    /\ [][SweepStep =>
            /\ DOMAIN events' = {k \in DOMAIN events : Younger(events[k], now) # <<>>}
            /\ \A k \in DOMAIN events' : events'[k] = Younger(events[k], now)]_vars
    /\ [][~SweepStep =>
            \A k \in DOMAIN events :
                k \in DOMAIN events' /\ IsPrefix(events[k], events'[k])]_vars

(* A sweep has just removed an event aged exactly EVENT_EXPIRY_MS (its id  *)
(* is still recorded as consumed) and kept the younger one behind it.      *)
C14_Witness ==
    /\ Len(Stored("a")) = 1
    /\ Stored("a")[1].id[3] = 2
    /\ now < nextSweep
    /\ \E id \in ConsumedBy("a", "c") :
          id[3] = 1 /\ now - id[2] = EVENT_EXPIRY_MS

(* C15: a blockingGet called while its key stores events its group has    *)
(* not consumed returns at once all of them, in insertion order, registers *)
(* no waiter and no timer, and every returned id is then in the group's    *)
(* consumed set.                                                           *)
Unseen(key, groupId) ==
    SelectSeq(Stored(key), LAMBDA e : e.id \notin ConsumedBy(key, groupId))

C15_ImmediatePath ==
    [][\A c \in DOMAIN calls' \ DOMAIN calls :
          Unseen(calls'[c].key, calls'[c].groupId) # <<>>
            => /\ calls'[c].pc = "done"
               /\ calls'[c].result = Unseen(calls'[c].key, calls'[c].groupId)
               /\ waiters' = waiters /\ timers' = timers /\ microtasks' = microtasks
               /\ GroupKey(calls'[c].key, calls'[c].groupId) \in DOMAIN groupConsumption'
               /\ Ids(calls'[c].result)
                     \subseteq groupConsumption'[GroupKey(calls'[c].key, calls'[c].groupId)]]_vars

(* A call returned two stored events at its first check, without waiting.  *)
C15_Witness ==
    \E c \in DOMAIN calls :
        /\ Done(c) /\ calls[c].wokenBy = 0 /\ Len(calls[c].result) = 2
        /\ c \notin timers

(* C16: a call is registered at most once and queued at most once, and     *)
(* only while resolved and not yet returned; it moves wait -> ready -> done *)
(* and never back; what resolved it first stays recorded; a timer firing   *)
(* for a call already resolved, and a push finding the resolve of a call   *)
(* already resolved, change neither that call nor what is queued; the      *)
(* continuation returns in one step.                                       *)
Registrations(c) ==
    {<<k, i>> \in UNION {{k} \X DOMAIN waiters[k] : k \in DOMAIN waiters} : waiters[k][i] = c}

C16_SingleWaitSingleResume ==
    /\ [](\A c \in DOMAIN calls :
            /\ Cardinality(Registrations(c)) <= 1
            /\ Pending(c) => Cardinality(Registrations(c)) = 1
            /\ Count(microtasks, c) = (IF calls[c].pc = "ready" THEN 1 ELSE 0))
    /\ [][\A c \in DOMAIN calls :
            /\ calls[c].pc = "wait" => calls'[c].pc \in {"wait", "ready"}
            /\ calls[c].pc = "ready" => calls'[c].pc \in {"ready", "done"}
            /\ calls[c].pc = "done" => calls'[c] = calls[c]
            /\ calls[c].pc # "wait" =>
                  /\ calls'[c].wokenBy = calls[c].wokenBy
                  /\ Cardinality(Registrations(c)') <= Cardinality(Registrations(c))
            /\ (c \in timers /\ c \notin timers' /\ ~Pending(c)) =>
                  calls' = calls /\ microtasks' = microtasks /\ UNCHANGED stores]_vars

(* A call was woken by a push and has returned; its timer fired afterwards. *)
C16_Witness ==
    \E c \in DOMAIN calls :
        /\ Done(c) /\ calls[c].wokenBy > 0
        /\ c \notin timers
        /\ now >= calls[c].calledAt + BLOCKING_TIMEOUT_MS

(* C17: a call that returns [] has changed neither the Event Store nor    *)
(* the Consumption Tracker: not when it registered, not when it returned,  *)
(* not when its arguments were missing; no entry is created for an unknown *)
(* key or an unknown (key, groupId).                                       *)
C17_ReadPurity ==
    [][/\ (\E c \in DOMAIN calls' : Returning(c) /\ calls'[c].result = <<>>)
            => events' = events /\ groupConsumption' = groupConsumption
       /\ (\E c \in DOMAIN calls' \ DOMAIN calls : calls'[c].pc = "wait")
            => events' = events /\ groupConsumption' = groupConsumption
       /\ outcome' = "returned: []"
            => events' = events /\ groupConsumption' = groupConsumption]_vars

(* A call on a key the store does not know, of a group without a record,   *)
(* has returned [] and neither map has an entry for it.                    *)
C17_Witness ==
    \E c \in DOMAIN calls :
        /\ Done(c) /\ calls[c].result = <<>>
        /\ calls[c].key \notin DOMAIN events
        /\ GroupKey(calls[c].key, calls[c].groupId) \notin DOMAIN groupConsumption

(* C18: when a call with well-formed arguments returns [], the store holds *)
(* at that moment no event of its key that is missing from its group's     *)
(* consumed set.                                                           *)
StoredIn(evs, key) == IF key \in DOMAIN evs THEN evs[key] ELSE <<>>

C18_EmptyResultSound ==
    [][\A c \in DOMAIN calls' :
          (Returning(c) /\ calls'[c].result = <<>>)
            => \A i \in DOMAIN StoredIn(events', calls'[c].key) :
                  /\ GroupKey(calls'[c].key, calls'[c].groupId) \in DOMAIN groupConsumption'
                  /\ StoredIn(events', calls'[c].key)[i].id
                        \in groupConsumption'[GroupKey(calls'[c].key, calls'[c].groupId)]]_vars

(* A call woken by a push returned [] although the event is stored: a call *)
(* of its own group had taken it.                                          *)
C18_Witness ==
    \E c \in DOMAIN calls :
        /\ Done(c) /\ calls[c].wokenBy > 0 /\ calls[c].result = <<>>
        /\ Stored(calls[c].key) # <<>>

(* C19: the consumption record used for a pair (key, groupId) holds only  *)
(* ids that were marked consumed for that pair, i.e. returned to one of    *)
(* its calls; marking for another pair never adds to it.                   *)
C19_RecordsOfDistinctPairsDistinct ==
    \A k \in Keys \ {""}, g \in GroupIds \ {""} :
        ConsumedBy(k, g) \subseteq ReturnedTo(k, g)

(* C20 as stated: every returned event carries the data value passed to    *)
(* the push that created it.                                               *)
C20_PayloadAsPushed ==
    \A c \in DOMAIN calls : \A i \in DOMAIN calls[c].result :
        calls[c].result[i].data = pushed[calls[c].result[i].id[3]]

(* C20 amended: a returned event carries the data value passed to its push *)
(* when that value is truthy, and the empty object {} when it is falsy.    *)
C20_PayloadOrEmptyObject ==
    \A c \in DOMAIN calls : \A i \in DOMAIN calls[c].result :
        LET data == pushed[calls[c].result[i].id[3]] IN
        calls[c].result[i].data = (IF data \in Falsy THEN "{}" ELSE data)

(* One call returned an event pushed with a truthy value and one pushed    *)
(* with the falsy value 0.                                                 *)
C20_Witness ==
    \E c \in DOMAIN calls : \E i, j \in DOMAIN calls[c].result :
        /\ pushed[calls[c].result[i].id[3]] = "0" /\ calls[c].result[i].data = "{}"
        /\ pushed[calls[c].result[j].id[3]] = "{id:1}" /\ calls[c].result[j].data = "{id:1}"

====
